---- MODULE Spec2Model ----
(***************************************************************************)
(* A model of cf_info.py: the three-level walk of main() (accounts ->      *)
(* zones -> DNS records), its two filter sources, the three fetchers, the  *)
(* table presenter and the top-level handler of the script.                *)
(*                                                                         *)
(* Text is modelled as a sequence of one-character strings, so that        *)
(* lowercasing, splitting on a comma, substring search, suffix tests,      *)
(* str.replace and the parsing of a timestamp are computed character by    *)
(* character as Python computes them.                                      *)
(***************************************************************************)
EXTENDS Integers, Sequences, FiniteSets, TLC

\* ------------------------------------------------------------------ bounds

\* The API returns at most MaxItems items (accounts, zones and records
\* together) during one run of main().
MaxItems == 4

\* Longest record name / zone name given to simplify_name on its own.
MaxNameLen == 5
MaxZoneLen == 2

\* Longest account or zone name, ACCOUNTS / ZONES value and --account /
\* --zone value given to the filters on their own.
MaxFilterNameLen == 2
MaxEnvLen == 3
MaxCliLen == 2

\* ------------------------------------------------------------ text helpers

\* os.getenv(...) of a variable that is not set, and an argparse option that
\* was not given: Python's None. Some(v) is a value that is there.
None == [some |-> FALSE, val |-> <<>>]

Some(v) == [some |-> TRUE, val |-> v]

\* str.lower() on the letters the model uses.
LowerChar(c) ==
    CASE c = "A" -> "a"
      [] c = "B" -> "b"
      [] c = "T" -> "t"
      [] c = "Z" -> "z"
      [] OTHER -> c

Lower(s) == [i \in 1..Len(s) |-> LowerChar(s[i])]

\* s.startswith(p, i): p occurs in s at position i (1-based).
OccursAt(p, s, i) ==
    /\ i >= 1
    /\ i + Len(p) - 1 <= Len(s)
    /\ \A k \in 1..Len(p) : s[i + k - 1] = p[k]

\* Python's `p in s` on strings: the empty string is in every string.
In(p, s) == \E i \in 1..(Len(s) + 1) : OccursAt(p, s, i)

\* s.endswith(p)
EndsWith(s, p) == Len(p) <= Len(s) /\ OccursAt(p, s, Len(s) - Len(p) + 1)

\* s.split(","): always at least one entry; "" splits to [""].
RECURSIVE Split(_)
Split(s) ==
    IF \A i \in 1..Len(s) : s[i] # ","
    THEN <<s>>
    ELSE LET c == CHOOSE i \in 1..Len(s) :
                      s[i] = "," /\ \A j \in 1..(i - 1) : s[j] # ","
         IN <<SubSeq(s, 1, c - 1)>> \o Split(SubSeq(s, c + 1, Len(s)))

\* s.replace(old, new) for a non-empty old: the non-overlapping occurrences
\* of old, found left to right, are all replaced.
RECURSIVE Replace(_, _, _)
Replace(s, old, new) ==
    IF Len(s) = 0 THEN <<>>
    ELSE IF OccursAt(old, s, 1)
         THEN new \o Replace(SubSeq(s, Len(old) + 1, Len(s)), old, new)
         ELSE <<s[1]>> \o Replace(Tail(s), old, new)

\* All sequences over S of length at most n.
SeqsUpTo(S, n) == UNION {[1..k -> S] : k \in 0..n}

\* -------------------------------------------------------- simplify_name

simplify_name(name, zone_name) ==
    IF name = zone_name THEN name
    ELSE IF EndsWith(name, <<".">> \o zone_name)
         THEN Replace(name, <<".">> \o zone_name, <<>>)
         ELSE name

\* ----------------------------------------------------------- format_time

Digits == <<"0", "1", "2", "3", "4", "5", "6", "7", "8", "9">>

IsDigit(c) == \E i \in 1..10 : Digits[i] = c

DigitVal(c) == (CHOOSE i \in 1..10 : Digits[i] = c) - 1

AllDigits(t) == \A i \in 1..Len(t) : IsDigit(t[i])

\* int() of a field's text; the leading blank %d allows counts for nothing.
RECURSIVE NumVal(_)
NumVal(t) ==
    IF Len(t) = 0 THEN 0
    ELSE IF t[Len(t)] = " " THEN 0
    ELSE NumVal(SubSeq(t, 1, Len(t) - 1)) * 10 + DigitVal(t[Len(t)])

\* The regular expression strptime compiles for each directive of the format.
FieldOK(f, t) ==
    CASE f = "Y" -> Len(t) = 4 /\ AllDigits(t)
      [] f = "m" -> \/ Len(t) = 2 /\ t[1] = "1" /\ t[2] \in {"0", "1", "2"}
                    \/ Len(t) = 2 /\ t[1] = "0" /\ IsDigit(t[2]) /\ t[2] # "0"
                    \/ Len(t) = 1 /\ IsDigit(t[1]) /\ t[1] # "0"
      [] f = "d" -> \/ Len(t) = 2 /\ t[1] = "3" /\ t[2] \in {"0", "1"}
                    \/ Len(t) = 2 /\ t[1] \in {"1", "2"} /\ IsDigit(t[2])
                    \/ Len(t) = 2 /\ t[1] = "0" /\ IsDigit(t[2]) /\ t[2] # "0"
                    \/ Len(t) = 1 /\ IsDigit(t[1]) /\ t[1] # "0"
                    \/ Len(t) = 2 /\ t[1] = " " /\ IsDigit(t[2]) /\ t[2] # "0"
      [] f = "H" -> \/ Len(t) = 2 /\ t[1] = "2" /\ t[2] \in {"0", "1", "2", "3"}
                    \/ Len(t) = 2 /\ t[1] \in {"0", "1"} /\ IsDigit(t[2])
                    \/ Len(t) = 1 /\ IsDigit(t[1])
      [] f = "M" -> \/ Len(t) = 2 /\ t[1] \in {"0", "1", "2", "3", "4", "5"}
                                  /\ IsDigit(t[2])
                    \/ Len(t) = 1 /\ IsDigit(t[1])
      [] f = "S" -> \/ Len(t) = 2 /\ t[1] = "6" /\ t[2] \in {"0", "1"}
                    \/ Len(t) = 2 /\ t[1] \in {"0", "1", "2", "3", "4", "5"}
                                  /\ IsDigit(t[2])
                    \/ Len(t) = 1 /\ IsDigit(t[1])
      [] f = "f" -> Len(t) \in 1..6 /\ AllDigits(t)

\* "%Y-%m-%dT%H:%M:%S.%fZ": directives and the literal characters between.
TimeFormat ==
    << <<"fld", "Y">>, <<"lit", "-">>, <<"fld", "m">>, <<"lit", "-">>,
       <<"fld", "d">>, <<"lit", "T">>, <<"fld", "H">>, <<"lit", ":">>,
       <<"fld", "M">>, <<"lit", ":">>, <<"fld", "S">>, <<"lit", ".">>,
       <<"fld", "f">>, <<"lit", "Z">> >>

\* The ways the whole of s matches the format ps: each a sequence of the
\* directives' texts. strptime matches ignoring case and rejects a string
\* with characters left over.
RECURSIVE Matches(_, _)
Matches(s, ps) ==
    IF ps = <<>> THEN (IF s = <<>> THEN {<<>>} ELSE {})
    ELSE LET p == Head(ps)
         IN IF p[1] = "lit"
            THEN IF Len(s) > 0 /\ LowerChar(s[1]) = LowerChar(p[2])
                 THEN Matches(Tail(s), Tail(ps))
                 ELSE {}
            ELSE UNION { { <<SubSeq(s, 1, w)>> \o r :
                             r \in Matches(SubSeq(s, w + 1, Len(s)), Tail(ps)) } :
                         w \in { v \in 1..6 : /\ v <= Len(s)
                                              /\ FieldOK(p[2], SubSeq(s, 1, v)) } }

IsLeap(y) == (y % 4 = 0 /\ y % 100 # 0) \/ y % 400 = 0

DaysInMonth(y, m) ==
    IF m = 2 THEN (IF IsLeap(y) THEN 29 ELSE 28)
    ELSE IF m \in {4, 6, 9, 11} THEN 30 ELSE 31

\* The fields of a match make a datetime: year 1..9999, a day the month has,
\* a second below 60.
ValidFields(g) ==
    /\ NumVal(g[1]) >= 1
    /\ NumVal(g[3]) <= DaysInMonth(NumVal(g[1]), NumVal(g[2]))
    /\ NumVal(g[6]) <= 59

\* datetime.strptime(time_str, ...) returns (does not raise ValueError).
TimeParses(time_str) == \E g \in Matches(time_str, TimeFormat) : ValidFields(g)

Pad(n, width) == [i \in 1..width |-> Digits[((n \div (10 ^ (width - i))) % 10) + 1]]

\* format_time of a string that parses: strftime("%Y-%m-%d %H:%M").
format_time(time_str) ==
    LET g == CHOOSE x \in Matches(time_str, TimeFormat) : ValidFields(x)
    IN Pad(NumVal(g[1]), 4) \o <<"-">> \o Pad(NumVal(g[2]), 2) \o <<"-">>
       \o Pad(NumVal(g[3]), 2) \o <<" ">>
       \o Pad(NumVal(g[4]), 2) \o <<":">> \o Pad(NumVal(g[5]), 2)

\* ------------------------------------------------------- the filter engine

\* A bug: the entries are not lowercased.
EnvFilter_noLower(value) ==
    IF value.some /\ value.val # <<>> THEN Some(Split(value.val)) ELSE None

\* Lines 114-115: the filter list of an environment variable; None when the
\* variable is unset or empty (os.getenv(...) is falsy).
EnvFilter(value) ==
    IF value.some /\ value.val # <<>>
    THEN LET parts == Split(value.val)
         IN Some([i \in 1..Len(parts) |-> Lower(parts[i])])
    ELSE None

\* A bug: only the first entry of the list is tried.
EnvRejects_first(env, name) ==
    /\ env.some
    /\ env.val # <<>>
    /\ ~ In(env.val[1], Lower(name))

\* Lines 126 and 137: `env and not any(e in name.lower() for e in env)`.
EnvRejects(env, name) ==
    /\ env.some
    /\ env.val # <<>>
    /\ ~ \E i \in 1..Len(env.val) : In(env.val[i], Lower(name))

\* Lines 129 and 140: `arg and arg.lower() not in name.lower()`.
CliRejects(arg, name) ==
    /\ arg.some
    /\ arg.val # <<>>
    /\ ~ In(Lower(arg.val), Lower(name))

\* A bug: an item is skipped only when both filters reject it.
ShouldSkip_both(env, arg, name) == EnvRejects(env, name) /\ CliRejects(arg, name)

\* Lines 126-130 and 137-141: either `continue` is taken.
ShouldSkip(env, arg, name) == EnvRejects(env, name) \/ CliRejects(arg, name)

\* ------------------------------------------------------------ the fetchers

HTTP_OK == 200

\* Status codes the API answers with.
StatusCodes == {200, 201, 204, 404, 500}

\* requests.get either raises (no connection, a timeout) or returns a
\* response: a status code and a body whose "result" is a list.
Responses(sample, n) ==
    {[kind |-> "raises", status |-> 0, result |-> <<>>]}
    \cup [kind : {"response"}, status : StatusCodes, result : SeqsUpTo(sample, n)]

\* What each fetcher returns, and what it logs, for a response.
get_accounts(response) ==
    IF response.status = HTTP_OK
    THEN [ret |-> response.result, logged |-> <<>>]
    ELSE [ret |-> <<>>, logged |-> << <<"error", "Failed to fetch accounts">> >>]

\* A bug: the body's result is returned whatever the status.
get_zones_keepBody(account_id, response) ==
    [ret |-> response.result,
     logged |-> IF response.status = HTTP_OK THEN <<>>
                ELSE << <<"error", "Failed to fetch zones for account", account_id>> >>]

get_zones(account_id, response) ==
    IF response.status = HTTP_OK
    THEN [ret |-> response.result, logged |-> <<>>]
    ELSE [ret |-> <<>>,
          logged |-> << <<"error", "Failed to fetch zones for account", account_id>> >>]

\* A bug: every 2xx status counts as success.
get_dns_records_any2xx(zone_id, response) ==
    IF response.status \in 200..299
    THEN [ret |-> response.result, logged |-> <<>>]
    ELSE [ret |-> <<>>,
          logged |-> << <<"error", "Failed to fetch DNS records for zone", zone_id>> >>]

get_dns_records(zone_id, response) ==
    IF response.status = HTTP_OK
    THEN [ret |-> response.result, logged |-> <<>>]
    ELSE [ret |-> <<>>,
          logged |-> << <<"error", "Failed to fetch DNS records for zone", zone_id>> >>]

\* A bug: `if accounts is None`, which a list never is.
NoAccounts_isNone(accs) == FALSE

\* Line 118: `if not accounts`.
NoAccounts(accs) == accs = <<>>

\* ---------------------------------------------------------- the presenter

\* Lines 91-102: the rows are built one record after the other, and a row's
\* created_on is formatted before its modified_on; the first timestamp that
\* does not parse raises ValueError out of display_dns_table.
RowRaises(record) ==
    ~ TimeParses(record.created_on) \/ ~ TimeParses(record.modified_on)

Row(record, zone_name) ==
    [name |-> simplify_name(record.name, zone_name),
     created |-> format_time(record.created_on),
     modified |-> format_time(record.modified_on)]

Printed(account_name, zone_name, rows) ==
    << [kind |-> "table", account |-> account_name, zone |-> zone_name, rows |-> rows],
       [kind |-> "blank", account |-> <<>>, zone |-> <<>>, rows |-> <<>>] >>

\* A bug: a row that raises is caught and left out of the table.
display_dns_table_catch(account_name, zone_name, recs) ==
    LET good == SelectSeq(recs, LAMBDA r : ~ RowRaises(r))
    IN [raised |-> FALSE,
        printed |-> Printed(account_name, zone_name,
                            [i \in 1..Len(good) |-> Row(good[i], zone_name)])]

\* A bug: a zone without records gets no table.
display_dns_table_skipEmpty(account_name, zone_name, recs) ==
    IF \E i \in 1..Len(recs) : RowRaises(recs[i])
    THEN [raised |-> TRUE, printed |-> <<>>]
    ELSE [raised |-> FALSE,
          printed |-> IF recs = <<>> THEN <<>>
                      ELSE Printed(account_name, zone_name,
                                   [i \in 1..Len(recs) |-> Row(recs[i], zone_name)])]

\* Lines 84-105: the table and the blank line are printed after every row
\* was added; nothing is printed when a row raises.
display_dns_table(account_name, zone_name, recs) ==
    IF \E i \in 1..Len(recs) : RowRaises(recs[i])
    THEN [raised |-> TRUE, printed |-> <<>>]
    ELSE [raised |-> FALSE,
          printed |-> Printed(account_name, zone_name,
                              [i \in 1..Len(recs) |-> Row(recs[i], zone_name)])]

\* Lines 146-151: the handler catches the exception, logs it and prints a
\* message; the script then runs off its end, on either path.
ExitCode(caught) == 0

\* ------------------------------------------------------------- the inputs

TsGood == <<"2", "0", "2", "4", "-", "0", "1", "-", "0", "2", "T", "0", "3", ":", "0", "4", ":", "0", "5", ".", "0", "0", "0", "0", "0", "0", "Z">>
TsShortFraction == <<"2", "0", "1", "4", "-", "0", "1", "-", "0", "1", "T", "0", "5", ":", "2", "0", ":", "0", "0", ".", "1", "2", "3", "4", "5", "Z">>
TsNoFraction == <<"2", "0", "2", "4", "-", "0", "1", "-", "0", "2", "T", "0", "3", ":", "0", "4", ":", "0", "5", "Z">>
TsBadDay == <<"2", "0", "2", "3", "-", "0", "2", "-", "3", "0", "T", "0", "3", ":", "0", "4", ":", "0", "5", ".", "0", "0", "0", "0", "0", "0", "Z">>

AccountSample ==
    { [id |-> "a1", name |-> <<"A">>], [id |-> "a2", name |-> <<"b">>] }

ZoneSample ==
    { [id |-> "z1", name |-> <<"A">>], [id |-> "z2", name |-> <<"b">>] }

RecordSample ==
    { [name |-> <<"w", ".", "b">>, created_on |-> TsGood,
       modified_on |-> TsShortFraction],
      [name |-> <<"b">>, created_on |-> TsNoFraction, modified_on |-> TsGood],
      [name |-> <<"w", ".", "A">>, created_on |-> TsGood,
       modified_on |-> TsBadDay] }

\* Settings of ACCOUNTS / ZONES, and of --account / --zone.
EnvSample == {None, Some(<<>>), Some(<<"c", ",", "A">>)}

CliSample == {None, Some(<<"B">>)}

\* ---------------------------------------------------------------- state

VARIABLES
    envACCOUNTS, envZONES,   \* os.environ: ACCOUNTS and ZONES
    argsAccount, argsZone,   \* args.account and args.zone
    pc,                      \* where the script is
    env_accounts, env_zones, \* main's locals
    accounts, ai,            \* the accounts and the position of `for account`
    zones, zi,               \* the zones and the position of `for zone`
    records,
    response,                \* the answer of requests.get inside a fetcher
    exc,                     \* the exception that propagates, or "none"
    console,                 \* what console.print has printed
    log,                     \* what logger has logged
    exitCode,                \* the exit status once the process has ended
    trace,                   \* history: the fetcher and presenter calls so far
    budget,                  \* items the API may still return
    name_in, zone_in, simplified, included, applied  \* a function on its own

vars ==
    <<envACCOUNTS, envZONES, argsAccount, argsZone, pc, env_accounts, env_zones,
      accounts, ai, zones, zi, records, response, exc, console, log, exitCode,
      trace, budget, name_in, zone_in, simplified, included, applied>>

inputVars == <<envACCOUNTS, envZONES, argsAccount, argsZone>>

simplifyVars == <<name_in, zone_in, simplified, included, applied>>

NoResponse == [kind |-> "none", status |-> 0, result |-> <<>>]

Event(op, a, z, outcome, result) ==
    [op |-> op, ai |-> a, zi |-> z, outcome |-> outcome, result |-> result]

MainStart ==
    /\ pc = "start"
    /\ env_accounts = None
    /\ env_zones = None
    /\ accounts = <<>>
    /\ ai = 0
    /\ zones = <<>>
    /\ zi = 0
    /\ records = <<>>
    /\ response = NoResponse
    /\ exc = "none"
    /\ console = <<>>
    /\ log = <<>>
    /\ exitCode = -1
    /\ trace = <<>>
    /\ budget = MaxItems

SimplifyIdle ==
    /\ name_in = <<>>
    /\ zone_in = <<>>
    /\ simplified = <<>>
    /\ included = [account |-> FALSE, zone |-> FALSE]
    /\ applied = FALSE

Init ==
    /\ envACCOUNTS \in EnvSample
    /\ envZONES \in EnvSample
    /\ argsAccount \in CliSample
    /\ argsZone \in CliSample
    /\ MainStart
    /\ SimplifyIdle

\* ----------------------------------------------------------------- main

\* Lines 109-115.
ReadFilters ==
    /\ pc = "start"
    /\ env_accounts' = EnvFilter(envACCOUNTS)
    /\ env_zones' = EnvFilter(envZONES)
    /\ pc' = "get_accounts"
    /\ UNCHANGED <<inputVars, accounts, ai, zones, zi, records, response, exc,
                   console, log, exitCode, trace, budget, simplifyVars>>

\* An exception leaves main for the handler of line 149.
Raise(name, event) ==
    /\ exc' = name
    /\ pc' = "handler"
    /\ trace' = Append(trace, event)

\* Lines 117-120.
GetAccounts ==
    /\ pc = "get_accounts"
    /\ \E r \in Responses(AccountSample, budget) :
         /\ response' = r
         /\ budget' = budget - Len(r.result)
         /\ IF r.kind = "raises"
            THEN /\ Raise("ConnectionError", Event("get_accounts", 0, 0, "raised", <<>>))
                 /\ UNCHANGED <<accounts, ai, console, log>>
            ELSE LET got == get_accounts(r)
                 IN /\ accounts' = got.ret
                    /\ log' = log \o got.logged
                    /\ trace' = Append(trace,
                           Event("get_accounts", 0, 0,
                                 IF got.logged = <<>> THEN "ok" ELSE "failed", got.ret))
                    /\ exc' = exc
                    /\ IF NoAccounts(got.ret)
                       THEN /\ console' = Append(console,
                                   [kind |-> "notice", account |-> <<>>,
                                    zone |-> <<>>, rows |-> <<>>])
                            /\ pc' = "returned"
                            /\ ai' = ai
                       ELSE /\ console' = console
                            /\ pc' = "account_loop"
                            /\ ai' = 1
    /\ UNCHANGED <<inputVars, env_accounts, env_zones, zones, zi, records,
                   exitCode, simplifyVars>>

\* Lines 122-130: the next account, and the two filters on its name.
AccountLoop ==
    /\ pc = "account_loop"
    /\ IF ai > Len(accounts)
       THEN pc' = "returned" /\ ai' = ai
       ELSE IF ShouldSkip(env_accounts, argsAccount, accounts[ai].name)
            THEN pc' = "account_loop" /\ ai' = ai + 1
            ELSE pc' = "get_zones" /\ ai' = ai
    /\ response' = NoResponse
    /\ UNCHANGED <<inputVars, env_accounts, env_zones, accounts, zones, zi,
                   records, exc, console, log, exitCode, trace, budget,
                   simplifyVars>>

\* Line 132.
GetZones ==
    /\ pc = "get_zones"
    /\ \E r \in Responses(ZoneSample, budget) :
         /\ response' = r
         /\ budget' = budget - Len(r.result)
         /\ IF r.kind = "raises"
            THEN /\ Raise("ConnectionError", Event("get_zones", ai, 0, "raised", <<>>))
                 /\ UNCHANGED <<zones, zi, log>>
            ELSE LET got == get_zones(accounts[ai].id, r)
                 IN /\ zones' = got.ret
                    /\ zi' = 1
                    /\ log' = log \o got.logged
                    /\ trace' = Append(trace,
                           Event("get_zones", ai, 0,
                                 IF got.logged = <<>> THEN "ok" ELSE "failed", got.ret))
                    /\ exc' = exc
                    /\ pc' = "zone_loop"
    /\ UNCHANGED <<inputVars, env_accounts, env_zones, accounts, ai, records,
                   console, exitCode, simplifyVars>>

\* Lines 133-141: the next zone of the account, and the two filters on its
\* name; the account's zones exhausted, the next account.
ZoneLoop ==
    /\ pc = "zone_loop"
    /\ IF zi > Len(zones)
       THEN pc' = "account_loop" /\ ai' = ai + 1 /\ zi' = zi
       ELSE IF ShouldSkip(env_zones, argsZone, zones[zi].name)
            THEN pc' = "zone_loop" /\ zi' = zi + 1 /\ ai' = ai
            ELSE pc' = "get_dns_records" /\ zi' = zi /\ ai' = ai
    /\ response' = NoResponse
    /\ UNCHANGED <<inputVars, env_accounts, env_zones, accounts, zones, records,
                   exc, console, log, exitCode, trace, budget,
                   simplifyVars>>

\* Line 143.
GetDnsRecords ==
    /\ pc = "get_dns_records"
    /\ \E r \in Responses(RecordSample, budget) :
         /\ response' = r
         /\ budget' = budget - Len(r.result)
         /\ IF r.kind = "raises"
            THEN /\ Raise("ConnectionError",
                          Event("get_dns_records", ai, zi, "raised", <<>>))
                 /\ UNCHANGED <<records, log>>
            ELSE LET got == get_dns_records(zones[zi].id, r)
                 IN /\ records' = got.ret
                    /\ log' = log \o got.logged
                    /\ trace' = Append(trace,
                           Event("get_dns_records", ai, zi,
                                 IF got.logged = <<>> THEN "ok" ELSE "failed", got.ret))
                    /\ exc' = exc
                    /\ pc' = "display"
    /\ UNCHANGED <<inputVars, env_accounts, env_zones, accounts, ai, zones, zi,
                   console, exitCode, simplifyVars>>

\* Line 144.
DisplayDnsTable ==
    /\ pc = "display"
    /\ LET shown == display_dns_table(accounts[ai].name, zones[zi].name, records)
       IN IF shown.raised
          THEN /\ Raise("ValueError", Event("display", ai, zi, "raised", records))
               /\ UNCHANGED <<console, zi>>
          ELSE /\ console' = console \o shown.printed
               /\ trace' = Append(trace, Event("display", ai, zi, "printed", records))
               /\ zi' = zi + 1
               /\ pc' = "zone_loop"
               /\ exc' = exc
    /\ response' = NoResponse
    /\ UNCHANGED <<inputVars, env_accounts, env_zones, accounts, ai, zones,
                   records, log, exitCode, budget, simplifyVars>>

\* Lines 149-151.
Handler ==
    /\ pc = "handler"
    /\ log' = Append(log, <<"exception", exc>>)
    /\ console' = Append(console, [kind |-> "error", account |-> <<>>,
                                   zone |-> <<>>, rows |-> <<>>])
    /\ trace' = Append(trace, Event("handler", ai, zi, exc, <<>>))
    /\ pc' = "handled"
    /\ response' = NoResponse
    /\ UNCHANGED <<inputVars, env_accounts, env_zones, accounts, ai, zones, zi,
                   records, exc, exitCode, budget, simplifyVars>>

\* The script ends: after main returned, or after the handler ran.
ProcessEnd ==
    /\ pc \in {"returned", "handled"}
    /\ exitCode' = ExitCode(pc = "handled")
    /\ pc' = "exit"
    /\ UNCHANGED <<inputVars, env_accounts, env_zones, accounts, ai, zones, zi,
                   records, response, exc, console, log, trace, budget,
                   simplifyVars>>

Next ==
    \/ ReadFilters
    \/ GetAccounts
    \/ AccountLoop
    \/ GetZones
    \/ ZoneLoop
    \/ GetDnsRecords
    \/ DisplayDnsTable
    \/ Handler
    \/ ProcessEnd

Spec == Init /\ [][Next]_vars

\* ------------------------------------------------- simplify_name on its own

NameChars == {"a", "b", "."}

\* A DNS name: labels that are not empty, with a dot between them.
IsDnsName(n) ==
    /\ n # <<>>
    /\ n[1] # "."
    /\ n[Len(n)] # "."
    /\ \A i \in 1..(Len(n) - 1) : ~ (n[i] = "." /\ n[i + 1] = ".")

InitSimplify ==
    /\ name_in \in {n \in SeqsUpTo(NameChars, MaxNameLen) : IsDnsName(n)}
    /\ zone_in \in {n \in SeqsUpTo(NameChars, MaxZoneLen) : IsDnsName(n)}
    /\ simplified = <<>>
    /\ included = [account |-> FALSE, zone |-> FALSE]
    /\ applied = FALSE
    /\ envACCOUNTS = None
    /\ envZONES = None
    /\ argsAccount = None
    /\ argsZone = None
    /\ MainStart

ApplySimplify ==
    /\ ~ applied
    /\ pc = "start"
    /\ simplified' = simplify_name(name_in, zone_in)
    /\ applied' = TRUE
    /\ UNCHANGED <<inputVars, pc, env_accounts, env_zones, accounts, ai, zones,
                   zi, records, response, exc, console, log, exitCode, trace,
                   budget, name_in, zone_in, included>>

NextSimplify == ApplySimplify

SpecSimplify == InitSimplify /\ [][NextSimplify]_vars

\* --------------------------------------------------- the filters on their own

FilterNameChars == {"A", "b"}

EnvChars == {"A", "b", ","}

\* main() started with every setting of the environment variable and of the
\* option, the same at both levels, and a name the API may return.
InitFilter ==
    /\ envACCOUNTS \in {None} \cup {Some(v) : v \in SeqsUpTo(EnvChars, MaxEnvLen)}
    /\ envZONES = envACCOUNTS
    /\ argsAccount \in {None} \cup {Some(v) : v \in SeqsUpTo(FilterNameChars, MaxCliLen)}
    /\ argsZone = argsAccount
    /\ name_in \in SeqsUpTo(FilterNameChars, MaxFilterNameLen)
    /\ zone_in = <<>>
    /\ simplified = <<>>
    /\ included = [account |-> FALSE, zone |-> FALSE]
    /\ applied = FALSE
    /\ MainStart

\* The filters of the account loop and of the zone loop, on name_in, with the
\* lists ReadFilters computed.
ApplyFilter ==
    /\ ~ applied
    /\ pc = "get_accounts"
    /\ included' = [account |-> ~ ShouldSkip(env_accounts, argsAccount, name_in),
                    zone |-> ~ ShouldSkip(env_zones, argsZone, name_in)]
    /\ applied' = TRUE
    /\ UNCHANGED <<inputVars, pc, env_accounts, env_zones, accounts, ai, zones,
                   zi, records, response, exc, console, log, exitCode, trace,
                   budget, name_in, zone_in, simplified>>

NextFilter ==
    \/ ReadFilters
    \/ ApplyFilter

SpecFilter == InitFilter /\ [][NextFilter]_vars

\* ======================================================================
\* The claims
\* ======================================================================

\* An item passes the filters, as the specification states it: a source that
\* is set is active; an active environment filter needs one of its
\* lowercased entries in the lowercased name, an active option needs its
\* lowercased value in the lowercased name.
PassesEnv(setting, name) ==
    setting.some =>
        \E i \in 1..Len(Split(setting.val)) :
            In(Lower(Split(setting.val)[i]), Lower(name))

PassesCli(setting, name) ==
    setting.some => In(Lower(setting.val), Lower(name))

Passes(envSetting, cliSetting, name) ==
    PassesEnv(envSetting, name) /\ PassesCli(cliSetting, name)

\* C1: main() processes an account (resp. a zone) if and only if its name
\* passes every active filter: the environment filter when the variable is
\* set, the option when it is given.
C1_IncludedIffPassesAll ==
    applied =>
        /\ included.account <=> Passes(envACCOUNTS, argsAccount, name_in)
        /\ included.zone <=> Passes(envZONES, argsZone, name_in)

\* An item that passes the option and fails the environment filter, both
\* active, was excluded.
C1_Witness ==
    /\ applied
    /\ envACCOUNTS.some
    /\ argsAccount.some
    /\ argsAccount.val # <<>>
    /\ PassesCli(argsAccount, name_in)
    /\ ~ PassesEnv(envACCOUNTS, name_in)
    /\ ~ included.account
    /\ ~ included.zone

\* ---------------------------------------------------------- history helpers

Tables == SelectSeq(console, LAMBDA line : line.kind = "table")

Calls(op) == SelectSeq(trace, LAMBDA e : e.op = op)

\* The positions of the items of a list whose names pass the filters.
PassingIdx(list, envSetting, cliSetting) ==
    SelectSeq([i \in 1..Len(list) |-> i],
              LAMBDA i : Passes(envSetting, cliSetting, list[i].name))

\* The (account position, zone position) pairs that pass, zones inside
\* accounts, for get_zones calls zcalls.
RECURSIVE SurvivingPairs(_)
SurvivingPairs(zcalls) ==
    IF zcalls = <<>> THEN <<>>
    ELSE LET zc == Head(zcalls)
             idx == PassingIdx(zc.result, envZONES, argsZone)
         IN [k \in 1..Len(idx) |-> <<zc.ai, idx[k]>>] \o SurvivingPairs(Tail(zcalls))

IsPrefix(s, t) == Len(s) <= Len(t) /\ \A i \in 1..Len(s) : s[i] = t[i]

CalledAccounts == [k \in 1..Len(Calls("get_zones")) |-> Calls("get_zones")[k].ai]

CalledZones ==
    [k \in 1..Len(Calls("get_dns_records")) |->
        <<Calls("get_dns_records")[k].ai, Calls("get_dns_records")[k].zi>>]

\* The zone list get_zones returned for the account at position a.
ZonesOf(a) ==
    LET zc == SelectSeq(trace, LAMBDA e : e.op = "get_zones" /\ e.ai = a)
    IN IF zc = <<>> THEN <<>> ELSE zc[1].result

\* C2: in a run in which no exception propagates, the tables rendered are
\* exactly the (account, zone) pairs that pass the filters, accounts outer,
\* zones inner, in the order the API returned them: each once, none that
\* was rejected, none out of order.
C2_TablesAreSurvivingPairs ==
    (pc = "exit" /\ exc = "none") =>
        LET accs == PassingIdx(accounts, envACCOUNTS, argsAccount)
            pairs == SurvivingPairs(Calls("get_zones"))
        IN /\ CalledAccounts = accs
           /\ Len(Tables) = Len(pairs)
           /\ \A k \in 1..Len(pairs) :
                /\ Tables[k].account = accounts[pairs[k][1]].name
                /\ Tables[k].zone = ZonesOf(pairs[k][1])[pairs[k][2]].name

\* A finished run that rendered two tables or more and rejected an item.
C2_Witness ==
    /\ pc = "exit"
    /\ exc = "none"
    /\ Len(Tables) >= 2
    /\ \/ Len(PassingIdx(accounts, envACCOUNTS, argsAccount)) < Len(accounts)
       \/ \E k \in 1..Len(Calls("get_zones")) :
            Len(PassingIdx(Calls("get_zones")[k].result, envZONES, argsZone))
                < Len(Calls("get_zones")[k].result)

\* Every get_dns_records result is given to display_dns_table before
\* anything else is fetched.
HandedOver ==
    \A i \in 1..Len(trace) :
        (trace[i].op = "get_dns_records" /\ trace[i].outcome # "raised") =>
            IF i = Len(trace)
            THEN pc = "display" /\ records = trace[i].result
            ELSE /\ trace[i + 1].op = "display"
                 /\ trace[i + 1].result = trace[i].result
                 /\ trace[i + 1].ai = trace[i].ai
                 /\ trace[i + 1].zi = trace[i].zi

\* C3, as stated: in any run of main(), get_accounts is called exactly
\* once, get_zones exactly once for each account that passes and never for
\* a rejected one, get_dns_records exactly once for each zone that passes
\* and never for a rejected one, each result given to display_dns_table
\* before the next fetch.
C3_ExactlyOncePerSurvivorInAnyRun ==
    pc = "exit" =>
        /\ Len(Calls("get_accounts")) = 1
        /\ CalledAccounts = PassingIdx(accounts, envACCOUNTS, argsAccount)
        /\ CalledZones = SurvivingPairs(Calls("get_zones"))
        /\ HandedOver

\* C3, amended: get_accounts is called exactly once; get_zones at most once
\* for each account that passes, in the API's order, and never for a
\* rejected one; get_dns_records at most once for each zone that passes and
\* never for a rejected one; each result is given to display_dns_table
\* before the next fetch; and in a run in which no exception propagates
\* "at most once" is "exactly once".
C3_OncePerSurvivorUnlessRaised ==
    /\ Len(Calls("get_accounts")) = (IF pc \in {"start", "get_accounts"} THEN 0 ELSE 1)
    /\ IsPrefix(CalledAccounts, PassingIdx(accounts, envACCOUNTS, argsAccount))
    /\ IsPrefix(CalledZones, SurvivingPairs(Calls("get_zones")))
    /\ HandedOver
    /\ (pc = "exit" /\ exc = "none") =>
          /\ CalledAccounts = PassingIdx(accounts, envACCOUNTS, argsAccount)
          /\ CalledZones = SurvivingPairs(Calls("get_zones"))

\* A finished run that skipped an account and a zone and fetched for others.
C3_Witness ==
    /\ pc = "exit"
    /\ exc = "none"
    /\ Len(CalledAccounts) >= 1
    /\ Len(CalledAccounts) < Len(accounts)
    /\ Len(CalledZones) >= 1
    /\ \E k \in 1..Len(Calls("get_zones")) :
         Len(CalledZones) < Len(Calls("get_zones")[k].result)

\* A fetcher returns in this step: its call to requests.get did not raise.
FetcherReturns ==
    /\ pc \in {"get_accounts", "get_zones", "get_dns_records"}
    /\ pc' # pc
    /\ response'.kind = "response"

\* What the fetcher of this step returned to main.
Fetched ==
    IF pc = "get_accounts" THEN accounts'
    ELSE IF pc = "get_zones" THEN zones' ELSE records'

ErrorLogged ==
    /\ Len(log') = Len(log) + 1
    /\ SubSeq(log', 1, Len(log)) = log
    /\ log'[Len(log')][1] = "error"

\* C4: a response that is not 2xx never raises: the fetcher logs an error
\* and returns an empty sequence, and main goes on as if the account or zone
\* had no children. After a failed get_zones no table is rendered for the
\* account and the accounts after it are still processed; after a failed
\* get_dns_records a table without rows is rendered and the zones and
\* accounts after it are still processed.
C4_FailedFetchAbsorbed ==
    /\ [][ FetcherReturns /\ response'.status \notin 200..299 =>
             /\ exc' = "none"
             /\ pc' # "handler"
             /\ Fetched = <<>>
             /\ ErrorLogged
             /\ pc = "get_accounts" => pc' = "returned"
             /\ pc = "get_zones" => pc' = "zone_loop" /\ console' = console
             /\ pc = "get_dns_records" => pc' = "display" /\ console' = console ]_vars
    /\ [][ pc = "zone_loop" /\ zones = <<>> =>
             pc' = "account_loop" /\ ai' = ai + 1 /\ console' = console ]_vars
    /\ [][ pc = "display" /\ records = <<>> =>
             /\ console' = console \o Printed(accounts[ai].name, zones[zi].name, <<>>)
             /\ pc' = "zone_loop"
             /\ zi' = zi + 1 ]_vars
    /\ [](\A i \in 1..Len(trace) :
            /\ (trace[i].op = "get_zones" /\ trace[i].outcome = "failed") =>
                 /\ \A j \in 1..Len(trace) :
                      trace[j].op \in {"get_dns_records", "display"}
                          => trace[j].ai # trace[i].ai
                 /\ (pc = "exit" /\ exc = "none") =>
                      CalledAccounts = PassingIdx(accounts, envACCOUNTS, argsAccount)
            /\ (trace[i].op = "get_dns_records" /\ trace[i].outcome = "failed") =>
                 /\ i < Len(trace) =>
                      trace[i + 1].outcome = "printed" /\ trace[i + 1].result = <<>>
                 /\ (pc = "exit" /\ exc = "none") =>
                      /\ CalledAccounts = PassingIdx(accounts, envACCOUNTS, argsAccount)
                      /\ CalledZones = SurvivingPairs(Calls("get_zones")))

\* A finished run in which get_zones failed for the first account and the
\* second account got a table.
C4_Witness ==
    /\ pc = "exit"
    /\ exc = "none"
    /\ \E i \in 1..Len(trace) :
         /\ trace[i].op = "get_zones"
         /\ trace[i].outcome = "failed"
         /\ trace[i].ai = 1
    /\ \E k \in 1..Len(Tables) : Tables[k].account = accounts[2].name

\* C5: get_accounts returned an empty sequence (no account, or a failed
\* fetch): main prints the notice once, renders no table, fetches nothing
\* else and ends without raising, with exit code 0.
C5_NoAccounts ==
    (/\ Len(trace) >= 1
     /\ trace[1].op = "get_accounts"
     /\ trace[1].outcome # "raised"
     /\ trace[1].result = <<>>) =>
        /\ Len(trace) = 1
        /\ Len(console) = 1
        /\ console[1].kind = "notice"
        /\ exc = "none"
        /\ pc \in {"returned", "exit"}
        /\ pc = "exit" => exitCode = 0

\* The process has ended after a failed fetch of the accounts.
C5_Witness ==
    /\ pc = "exit"
    /\ Len(trace) = 1
    /\ trace[1].outcome = "failed"
    /\ Len(console) = 1
    /\ console[1].kind = "notice"

\* A record of the list has a created_on or a modified_on that strptime
\* does not parse.
HasBadTimestamp(recs) ==
    \E i \in 1..Len(recs) :
        ~ TimeParses(recs[i].created_on) \/ ~ TimeParses(recs[i].modified_on)

\* C6: a timestamp that does not parse is caught neither by
\* display_dns_table nor by main: the zone's table is not printed, the
\* handler logs the error and prints a message, the process ends; nothing is
\* fetched or rendered afterwards and the tables already printed stay.
C6_BadTimestampIsFatal ==
    /\ [][ pc = "display" /\ HasBadTimestamp(records) =>
             /\ pc' = "handler"
             /\ exc' = "ValueError"
             /\ console' = console ]_vars
    /\ [][ pc = "handler" =>
             /\ pc' = "handled"
             /\ log' = Append(log, <<"exception", exc>>)
             /\ Len(console') = Len(console) + 1
             /\ SubSeq(console', 1, Len(console)) = console
             /\ console'[Len(console')].kind = "error" ]_vars
    /\ [][ pc = "handled" => pc' = "exit" /\ console' = console /\ log' = log ]_vars
    /\ [][ exc # "none" =>
             /\ Calls("get_accounts")' = Calls("get_accounts")
             /\ Calls("get_zones")' = Calls("get_zones")
             /\ Calls("get_dns_records")' = Calls("get_dns_records")
             /\ Calls("display")' = Calls("display")
             /\ Tables' = Tables
             /\ exc' = exc ]_vars
    /\ [](pc = "exit" /\ exc = "ValueError" =>
             /\ trace[Len(trace)].op = "handler"
             /\ trace[Len(trace) - 1].op = "display"
             /\ trace[Len(trace) - 1].outcome = "raised"
             /\ HasBadTimestamp(trace[Len(trace) - 1].result)
             /\ Len(Tables) = Len(Calls("display")) - 1)

\* The process has ended on a bad timestamp in the second zone, the first
\* zone's table printed before.
C6_Witness ==
    /\ pc = "exit"
    /\ exc = "ValueError"
    /\ Len(Tables) = 1
    /\ console[Len(console)].kind = "error"
    /\ Len(Calls("get_dns_records")) = 2

EntriesOf(text) == [i \in 1..Len(Split(text)) |-> Lower(Split(text)[i])]

NoEnvFilter(setting) == ~ setting.some \/ setting.val = <<>>

\* C9: the filter of ACCOUNTS (resp. ZONES) is computed once, at the start
\* of main(), as the lowercased comma-split entries of the variable; an
\* absent variable is no filter and an empty one is equivalent to none: with
\* the option not given, every account (resp. zone) is included.
C9_EnvFilterComputedOnce ==
    /\ [](pc # "start" =>
            /\ ~ envACCOUNTS.some => ~ env_accounts.some
            /\ ~ envZONES.some => ~ env_zones.some
            /\ ~ NoEnvFilter(envACCOUNTS) =>
                 env_accounts = Some(EntriesOf(envACCOUNTS.val))
            /\ ~ NoEnvFilter(envZONES) => env_zones = Some(EntriesOf(envZONES.val)))
    /\ [][ pc # "start" => env_accounts' = env_accounts /\ env_zones' = env_zones ]_vars
    /\ [][ (/\ pc = "account_loop"
            /\ ai <= Len(accounts)
            /\ NoEnvFilter(envACCOUNTS)
            /\ ~ argsAccount.some) => pc' = "get_zones" /\ ai' = ai ]_vars
    /\ [][ (/\ pc = "zone_loop"
            /\ zi <= Len(zones)
            /\ NoEnvFilter(envZONES)
            /\ ~ argsZone.some) => pc' = "get_dns_records" /\ zi' = zi ]_vars

\* ACCOUNTS and ZONES are set and empty, no option is given: both accounts
\* were fetched for and a zone was rendered.
C9_Witness ==
    /\ envACCOUNTS = Some(<<>>)
    /\ envZONES = Some(<<>>)
    /\ ~ argsAccount.some
    /\ ~ argsZone.some
    /\ pc = "exit"
    /\ Len(accounts) = 2
    /\ CalledAccounts = <<1, 2>>
    /\ Len(Tables) >= 1

\* C10: a fetcher takes a response for a success exactly when its status is
\* 200: for every other status, 201 and 204 too, it logs an error and
\* returns an empty sequence instead of the body's result list.
C10_SuccessIsStatus200 ==
    [][ FetcherReturns =>
          IF response'.status = 200
          THEN Fetched = response'.result /\ log' = log
          ELSE Fetched = <<>> /\ ErrorLogged ]_vars

\* get_dns_records got a 201 or a 204 with records in the body and returned
\* none of them.
C10_Witness ==
    /\ pc = "display"
    /\ response.kind = "response"
    /\ response.status \in {201, 204}
    /\ response.result # <<>>
    /\ records = <<>>

\* C8: simplify_name(N, Z) is N when N = Z, N without its trailing ".Z" when
\* N ends with ".Z" (every other character kept), and N otherwise.
C8_OnlySuffixStripped ==
    applied =>
        simplified =
            IF name_in = zone_in THEN name_in
            ELSE IF EndsWith(name_in, <<".">> \o zone_in)
                 THEN SubSeq(name_in, 1, Len(name_in) - Len(zone_in) - 1)
                 ELSE name_in

\* C7: the exit code is 0 on normal completion and non-zero whenever an
\* exception reached the top-level handler.
C7_ExitCodeTellsFailure ==
    pc = "exit" => (exitCode = 0 <=> exc = "none")

====
